---- MODULE Spec2Model ----
(***************************************************************************)
(* A model of the asteroids game of src/main.rs: the session (Game), its   *)
(* per-frame step (Game::tick), the spawner (Game::generate_asteroids),    *)
(* Game::reset, Game::check_game_over and the driver loop of main.         *)
(*                                                                         *)
(* Units.  The program computes in f32.  The model computes in integers:   *)
(* every length is in tenths of a pixel (10.0 px is 100), every time in    *)
(* milliseconds (0.2 s is 200), every angle in degrees.  Frame times,      *)
(* spawn places and directions are drawn from grids on which every         *)
(* product and quotient of the code is exact, except the square root of    *)
(* distance and the bounce response, which round down.  A direction        *)
(* (cos a, sin a) is a vector u of length 25, standing for u/25.           *)
(***************************************************************************)
EXTENDS Integers, Sequences, FiniteSets, TLC

VARIABLES
    player,                   \* Game.player: Ship
    asteroids,                \* Game.asteroids: Vec<Asteroid>
    asteroid_counter,         \* Game.asteroid_counter
    lasers,                   \* Game.lasers: Vec<Laser>
    laser_counter,            \* Game.laser_counter
    laser_cooldown_remaining, \* Game.laser_cooldown_remaining
    score,                    \* Game.score
    particles,                \* Game.particles: the lifetimes, in order
    death_timer,              \* Game.death_timer
    game_started,             \* main: game_started
    game_over,                \* main: game_over
    last,                     \* what the last frame of main did (observation)
    since_fire,               \* frame times of the ticks since the last firing tick (observation)
    since_death,              \* frame times of the ticks since the ship died (observation)
    frames                    \* main: the iterations of the loop so far (observation)

vars == <<player, asteroids, asteroid_counter, lasers, laser_counter,
          laser_cooldown_remaining, score, particles, death_timer,
          game_started, game_over, last, since_fire, since_death, frames>>

-----------------------------------------------------------------------------
(* Program constants, in the model's units.                                *)

screen_width == 2000           \* screen_width(): a display 200 px wide
screen_height == 4000          \* screen_height(): a display 400 px high
SHIP_HEALTH == 5               \* Ship::new: health
IFRAMES == 120                 \* Ship::take_hit: frames of invincibility
max_asteroids == 20            \* Game::new: max_asteroids
laser_cooldown == 200          \* Game::new: laser_cooldown, 0.2 s
LAZER_VEL == 5000              \* Game::tick: LAZER_VEL, 500 px/s
DEATH_DELAY == 1000            \* Game::tick: death_timer = 1.0
SPLIT_RADIUS == 200            \* Game::tick: a.radius > 20.0
split_speed == 1000            \* Game::tick: split_speed, 100 px/s
WIN_SCORE == 100               \* Game::check_game_over: score == 100
min_radius == 100              \* generate_asteroids: min_radius, 10 px
max_radius == 1000             \* generate_asteroids: max_radius, 100 px
speed == 1000                  \* generate_asteroids: speed, 100 px/s
angle_variation_degrees == 30  \* generate_asteroids: angle_variation_degrees
max_attempts == 10             \* generate_asteroids: max_attempts
OVERLAP_PADDING == 100         \* generate_asteroids: 10 px padding
PARTICLE_LIFETIME == 1000      \* Particle::new: lifetime 1.0
DEATH_PARTICLES == 30          \* Game::tick: the ship's burst
SPLIT_PARTICLES == 15          \* Game::tick: a split's burst
BOUNCE_PARTICLES == 3          \* Game::tick: a bounce's burst
UNIT == 5 * 5                  \* the length of a direction vector

None == 0                      \* Option::None of ignore_collision_with (ids start at 1)

-----------------------------------------------------------------------------
(* Arithmetic.                                                             *)

Min(a, b) == IF a < b THEN a ELSE b

Max(a, b) == IF a > b THEN a ELSE b

\* Integer quotient rounded toward zero.
Quot(a, b) == IF a >= 0 THEN a \div b ELSE -((-a) \div b)

\* The integer square root (rounded down) of n, 0 <= n < 2^26.
ISqrt(n) == CHOOSE r \in 0..(2 * (screen_width + screen_height)) :
                r * r <= n /\ n < (r + 1) * (r + 1)

Vec2(x, y) == [x |-> x, y |-> y]

Dot(a, b) == a.x * b.x + a.y * b.y

Cross(a, b) == a.x * b.y - a.y * b.x

\* The square of the distance of two points.
Dist2(p1, p2) == (p2.x - p1.x) * (p2.x - p1.x) + (p2.y - p1.y) * (p2.y - p1.y)

\* distance with a fault: the square root is not taken.
distance_squared(p1, p2) == Dist2(p1, p2)

\* distance(p1, p2), rounded down.
distance(p1, p2) == ISqrt(Dist2(p1, p2))

\* distance(p1, p2) < r, for r >= 0, decided on the squares.
Within(p1, p2, r) == Dist2(p1, p2) < r * r

\* cos and sin of a multiple of 90 degrees.
Cos(deg) == CASE deg % 360 = 0 -> 1 [] deg % 360 = 180 -> -1 [] OTHER -> 0

Sin(deg) == CASE deg % 360 = 90 -> 1 [] deg % 360 = 270 -> -1 [] OTHER -> 0

\* 10000 tan of an angle of 30 or 45 degrees, rounded.
Tan10000(deg) == CASE deg = 30 -> 5774 [] deg = 45 -> 10000

-----------------------------------------------------------------------------
(* Ship.                                                                   *)

Ship_new(x, y) ==
    [position |-> Vec2(x, y), velocity |-> Vec2(0, 0), health |-> SHIP_HEALTH,
     iframes |-> 0, rotation |-> 270]

\* Ship::take_hit with a fault: the invincibility frames are not looked at.
Ship_take_hit_no_iframes(s) ==
    IF s.health > 0
    THEN [s EXCEPT !.health = s.health - 1, !.iframes = IFRAMES]
    ELSE s

Ship_take_hit(s) ==
    IF s.iframes = 0 /\ s.health > 0
    THEN [s EXCEPT !.health = s.health - 1, !.iframes = IFRAMES]
    ELSE s

\* The three vertices, rotated about their centre, in the order of the code.
Ship_vertices(s) ==
    LET x1 == s.position.x
        y1 == s.position.y
        x2 == s.position.x + 450
        y2 == s.position.y - 150
        x3 == s.position.x
        y3 == s.position.y - 300
        center == Vec2((x1 + x2 + x3) \div 3, (y1 + y2 + y3) \div 3)
        Rot(v) ==
            LET x == v.x - center.x
                y == v.y - center.y
            IN  Vec2(x * Cos(s.rotation) - y * Sin(s.rotation) + center.x,
                     x * Sin(s.rotation) + y * Cos(s.rotation) + center.y)
    IN  << Rot(Vec2(x1, y1)), Rot(Vec2(x2, y2)), Rot(Vec2(x3, y3)) >>

-----------------------------------------------------------------------------
(* Laser.                                                                  *)

Laser_new(x_pos, y_pos, x_vel, y_vel, id) ==
    [id |-> id, position |-> Vec2(x_pos, y_pos), velocity |-> Vec2(x_vel, y_vel)]

Laser_tick(l, frame_time) ==
    [l EXCEPT !.position = Vec2(l.position.x + (l.velocity.x * frame_time) \div 1000,
                                l.position.y + (l.velocity.y * frame_time) \div 1000)]

-----------------------------------------------------------------------------
(* Asteroid.  rotation and num_sides are read by render alone and left out. *)

Asteroid_new(x_pos, y_pos, x_vel, y_vel, radius, id) ==
    [id |-> id, position |-> Vec2(x_pos, y_pos), velocity |-> Vec2(x_vel, y_vel),
     radius |-> radius, health |-> 1, ignore_collision_with |-> None]

Asteroid_new_split(x_pos, y_pos, x_vel, y_vel, radius, id, ignore_id) ==
    [id |-> id, position |-> Vec2(x_pos, y_pos), velocity |-> Vec2(x_vel, y_vel),
     radius |-> radius, health |-> 1, ignore_collision_with |-> ignore_id]

Asteroid_tick(a, frame_time) ==
    [a EXCEPT !.position = Vec2(a.position.x + (a.velocity.x * frame_time) \div 1000,
                                a.position.y + (a.velocity.y * frame_time) \div 1000)]

Asteroid_take_hit(a) ==
    IF a.health > 0 THEN [a EXCEPT !.health = a.health - 1] ELSE a

-----------------------------------------------------------------------------
(* Particle: the lifetime alone (place, velocity and size are drawn at     *)
(* random and read by render alone).                                       *)

Particle_new == PARTICLE_LIFETIME

Particle_tick(p, frame_time) == p - frame_time * 2

Burst(n) == [k \in 1..n |-> Particle_new]

-----------------------------------------------------------------------------
(* Game::tick, in the order of the code.  A working record w holds the     *)
(* session's fields, the locals of tick (the removal sets and the two side *)
(* buffers) and what the tick did (for the properties).  The random angle  *)
(* of the k-th split of the tick is the direction angles[k].               *)

\* The move with a fault: the velocity is kept at the bounds of the arena.
MoveShipNoStop(s, frame_time, keys) ==
    LET rotation_degrees == (250 * frame_time) \div 1000
        thrust == (5 * 10 * frame_time) \div 1000
        vel1 == IF "W" \in keys
                THEN Vec2(s.velocity.x + thrust * Cos(s.rotation),
                          s.velocity.y + thrust * Sin(s.rotation))
                ELSE IF "S" \in keys
                THEN Vec2(s.velocity.x - thrust * Cos(s.rotation),
                          s.velocity.y - thrust * Sin(s.rotation))
                ELSE s.velocity
        rot1 == IF "A" \in keys THEN (s.rotation - rotation_degrees) % 360
                ELSE IF "D" \in keys THEN (s.rotation + rotation_degrees) % 360
                ELSE s.rotation
        px == Min(screen_width, Max(0, s.position.x + vel1.x))
        py == Min(screen_height, Max(0, s.position.y + vel1.y))
    IN  [s EXCEPT !.position = Vec2(px, py), !.velocity = vel1, !.rotation = rot1]

\* Lines 302-341: thrust, rotation, the move and the clamp to the arena.
MoveShip(s, frame_time, keys) ==
    LET rotation_degrees == (250 * frame_time) \div 1000
        thrust == (5 * 10 * frame_time) \div 1000
        vel1 == IF "W" \in keys
                THEN Vec2(s.velocity.x + thrust * Cos(s.rotation),
                          s.velocity.y + thrust * Sin(s.rotation))
                ELSE IF "S" \in keys
                THEN Vec2(s.velocity.x - thrust * Cos(s.rotation),
                          s.velocity.y - thrust * Sin(s.rotation))
                ELSE s.velocity
        rot1 == IF "A" \in keys THEN (s.rotation - rotation_degrees) % 360
                ELSE IF "D" \in keys THEN (s.rotation + rotation_degrees) % 360
                ELSE s.rotation
        min_x == 0
        max_x == screen_width
        px == Min(max_x, Max(min_x, s.position.x + vel1.x))
        min_y == 0
        max_y == screen_height
        py == Min(max_y, Max(min_y, s.position.y + vel1.y))
        vx == IF px = min_x \/ px = max_x THEN 0 ELSE vel1.x
        vy == IF py = min_y \/ py = max_y THEN 0 ELSE vel1.y
    IN  [s EXCEPT !.position = Vec2(px, py), !.velocity = Vec2(vx, vy), !.rotation = rot1]

\* The firing check with a fault: the cooldown is not looked at.
FireAcceptedNoCooldown(cooldown_remaining, keys) == "Space" \in keys

\* Lines 343-357: the firing check.
FireAccepted(cooldown_remaining, keys) == cooldown_remaining <= 0 /\ "Space" \in keys

Fire(w, keys) ==
    IF FireAccepted(w.laser_cooldown_remaining, keys)
    THEN LET front == Ship_vertices(w.player)[2]
             fired_laser ==
                 Laser_new(front.x, front.y,
                           w.player.velocity.x + LAZER_VEL * Cos(w.player.rotation),
                           w.player.velocity.y + LAZER_VEL * Sin(w.player.rotation),
                           w.laser_counter + 1)
         IN  [w EXCEPT !.laser_counter = w.laser_counter + 1,
                       !.lasers = Append(w.lasers, fired_laser),
                       !.laser_cooldown_remaining = laser_cooldown,
                       !.fired = TRUE]
    ELSE w

\* Lines 359-361.
CooldownTick(cooldown_remaining, frame_time) ==
    IF cooldown_remaining > 0 THEN cooldown_remaining - frame_time ELSE cooldown_remaining

\* The step of lines 363-365 with a fault: the frames are never counted down.
IframesTickNone(s) == s

\* The step of lines 363-365 with a fault: the frames are counted down by 2.
IframesTickTwo(s) ==
    IF s.iframes > 0 THEN [s EXCEPT !.iframes = Max(s.iframes - 2, 0)] ELSE s

\* Lines 363-365.
IframesTick(s) == IF s.iframes > 0 THEN [s EXCEPT !.iframes = s.iframes - 1] ELSE s

\* Lines 373-376: the asteroid has left the arena widened by its radius.
AsteroidOffScreen(a) ==
    \/ a.position.x > screen_width + a.radius
    \/ a.position.y > screen_height + a.radius
    \/ a.position.x < -a.radius
    \/ a.position.y < -a.radius

\* The split with a fault: both children get the id counter + 1.
SplitChildrenOneId(a, counter, angle) ==
    LET new_radius == a.radius \div 2
        id1 == counter + 1
        dx == (split_speed * angle.x) \div UNIT
        dy == (split_speed * angle.y) \div UNIT
    IN  << Asteroid_new_split(a.position.x, a.position.y,
                              a.velocity.x + dx, a.velocity.y + dy, new_radius, id1, id1),
           Asteroid_new_split(a.position.x, a.position.y,
                              a.velocity.x - dx, a.velocity.y - dy, new_radius, id1, id1) >>

\* Lines 411-437 and 534-560: the two children of a, ids from the counter.
SplitChildren(a, counter, angle) ==
    LET new_radius == a.radius \div 2
        id1 == counter + 1
        id2 == counter + 2
        dx == (split_speed * angle.x) \div UNIT
        dy == (split_speed * angle.y) \div UNIT
    IN  << Asteroid_new_split(a.position.x, a.position.y,
                              a.velocity.x + dx, a.velocity.y + dy, new_radius, id1, id2),
           Asteroid_new_split(a.position.x, a.position.y,
                              a.velocity.x - dx, a.velocity.y - dy, new_radius, id2, id1) >>

SplitRecord(a, by, counter) ==
    [parent |-> a.id, by |-> by, id1 |-> counter + 1, id2 |-> counter + 2,
     radius |-> a.radius, position |-> a.position]

\* Lines 382-441: does a vertex of the ship lie within the asteroid.
TouchesShip(s, a) ==
    \E k \in 1..3 : Within(Ship_vertices(s)[k], a.position, a.radius)

\* The test of the split with a fault: the threshold is the least radius.
SplitsAboveMin(a) == a.radius > min_radius

\* Lines 401: does a destroyed asteroid split.
Splits(a) == a.radius > SPLIT_RADIUS

\* The test of the death with a fault: the health before the hit is not looked at.
ShipDiedAgain(previous_health, s) == s.health = 0

\* Line 389: the ship just died.
ShipDied(previous_health, s) == previous_health > 0 /\ s.health = 0

\* Lines 369-442, one asteroid: advance, off-screen test, test against the ship.
ShipAsteroidStep(w, i, frame_time, angles) ==
    LET a == Asteroid_tick(w.asteroids[i], frame_time)
        w1 == [w EXCEPT !.asteroids[i] = a,
                        !.remove_asteroid_ids =
                            IF AsteroidOffScreen(a) THEN @ \cup {a.id} ELSE @]
    IN  IF ~TouchesShip(w1.player, a) THEN w1
        ELSE
        LET previous_health == w1.player.health
            p1 == Ship_take_hit(w1.player)
            died == ShipDied(previous_health, p1)
            w2 == [w1 EXCEPT !.player = p1,
                             !.remove_asteroid_ids = @ \cup {a.id},
                             !.particles = IF died THEN @ \o Burst(DEATH_PARTICLES) ELSE @,
                             !.death_timer = IF died THEN DEATH_DELAY ELSE @,
                             !.contacts = Append(@, a.id),
                             !.damage = IF p1.health < previous_health THEN @ + 1 ELSE @,
                             !.deaths = IF died THEN @ + 1 ELSE @]
        IN  IF ~Splits(a) THEN w2
            ELSE [w2 EXCEPT
                    !.particles = @ \o Burst(SPLIT_PARTICLES),
                    !.split_asteroids_from_collision =
                        @ \o SplitChildren(a, w2.asteroid_counter,
                                           angles[Len(w2.splits) + 1]),
                    !.splits = Append(@, SplitRecord(a, "ship", w2.asteroid_counter)),
                    !.asteroid_counter = @ + 2]

\* Lines 369-442: the asteroids lo..hi of the collection in order (the first
\* half of the range, then the second).
RECURSIVE ShipAsteroidLoop(_, _, _, _, _)
ShipAsteroidLoop(w, lo, hi, frame_time, angles) ==
    IF lo > Min(hi, Len(w.asteroids)) THEN w
    ELSE IF lo = hi THEN ShipAsteroidStep(w, lo, frame_time, angles)
    ELSE LET mid == (lo + hi) \div 2
         IN  ShipAsteroidLoop(ShipAsteroidLoop(w, lo, mid, frame_time, angles),
                              mid + 1, hi, frame_time, angles)

\* Lines 448-450: either asteroid is exempt from the other.
ShouldIgnore(ai, aj) ==
    ai.ignore_collision_with = aj.id \/ aj.ignore_collision_with = ai.id

\* The clearing with a fault: the exemption stays.
ClearIgnoreKept(ai, aj) == ai

\* Lines 456-463: the exemptions of a pair that has separated are cleared.
ClearIgnore(ai, aj) ==
    IF ai.ignore_collision_with = aj.id
    THEN [ai EXCEPT !.ignore_collision_with = None]
    ELSE ai

\* The test of lines 465 and 476 with a fault: the exemption is not looked at.
BouncesExempt(ai, aj) ==
    LET collision_distance == ai.radius + aj.radius
        d == Vec2(aj.position.x - ai.position.x, aj.position.y - ai.position.y)
        relative_velocity == Vec2(aj.velocity.x - ai.velocity.x,
                                  aj.velocity.y - ai.velocity.y)
    IN  /\ Within(ai.position, aj.position, collision_distance)
        /\ Dist2(ai.position, aj.position) > 0
        /\ Dot(relative_velocity, d) < 0

\* Lines 465 and 476: the pair overlaps (0 < dist < collision_distance), is not
\* exempt and is approaching (velocity_along_normal < 0).
Bounces(ai, aj) ==
    LET collision_distance == ai.radius + aj.radius
        d == Vec2(aj.position.x - ai.position.x, aj.position.y - ai.position.y)
        relative_velocity == Vec2(aj.velocity.x - ai.velocity.x,
                                  aj.velocity.y - ai.velocity.y)
    IN  /\ Within(ai.position, aj.position, collision_distance)
        /\ Dist2(ai.position, aj.position) > 0
        /\ ~ShouldIgnore(ai, aj)
        /\ Dot(relative_velocity, d) < 0

\* Lines 467-492: the elastic response of an approaching pair: << ai', aj' >>.
\* normal is d / dist; a quotient is rounded toward zero where it is taken.
BounceResponse(ai, aj) ==
    LET collision_distance == ai.radius + aj.radius
        dist == distance(ai.position, aj.position)
        d == Vec2(aj.position.x - ai.position.x, aj.position.y - ai.position.y)
        relative_velocity == Vec2(aj.velocity.x - ai.velocity.x,
                                  aj.velocity.y - ai.velocity.y)
        velocity_along_normal == Quot(Dot(relative_velocity, d), dist)
        mass1 == ai.radius * ai.radius
        mass2 == aj.radius * aj.radius
        \* impulse * mass2 and impulse * mass1, impulse = 2 van / (mass1 + mass2)
        impulse_mass2 == Quot(velocity_along_normal * ((2000 * mass2) \div (mass1 + mass2)), 1000)
        impulse_mass1 == Quot(velocity_along_normal * ((2000 * mass1) \div (mass1 + mass2)), 1000)
        overlap == collision_distance - dist
        sep == overlap \div 2 + 10
        separation == Vec2(Quot(d.x * sep, dist), Quot(d.y * sep, dist))
    IN  << [ai EXCEPT !.velocity = Vec2(ai.velocity.x + Quot(impulse_mass2 * d.x, dist),
                                        ai.velocity.y + Quot(impulse_mass2 * d.y, dist)),
                      !.position = Vec2(ai.position.x - separation.x,
                                        ai.position.y - separation.y)],
           [aj EXCEPT !.velocity = Vec2(aj.velocity.x - Quot(impulse_mass1 * d.x, dist),
                                        aj.velocity.y - Quot(impulse_mass1 * d.y, dist)),
                      !.position = Vec2(aj.position.x + separation.x,
                                        aj.position.y + separation.y)] >>

\* Lines 447-505, one pair i < j.
PairStep(w, i, j) ==
    LET ai == w.asteroids[i]
        aj == w.asteroids[j]
        should_ignore == ShouldIgnore(ai, aj)
        collision_distance == ai.radius + aj.radius
    IN  IF should_ignore /\ ~Within(ai.position, aj.position, collision_distance)
        THEN [w EXCEPT !.asteroids[i] = ClearIgnore(ai, aj),
                       !.asteroids[j] = ClearIgnore(aj, ai),
                       !.cleared = @ \cup {{ai.id, aj.id}}]
        ELSE IF Bounces(ai, aj)
        THEN LET r == BounceResponse(ai, aj)
             IN  [w EXCEPT !.asteroids[i] = r[1],
                           !.asteroids[j] = r[2],
                           !.particles = @ \o Burst(BOUNCE_PARTICLES),
                           !.bounced = @ \cup {{ai.id, aj.id}}]
        ELSE [w EXCEPT !.exempted = IF should_ignore THEN @ \cup {{ai.id, aj.id}} ELSE @]

\* Lines 446-506: the inner loop, the pairs of asteroid i with lo..hi in order.
RECURSIVE PairRow(_, _, _, _)
PairRow(w, i, lo, hi) ==
    IF lo > Min(hi, Len(w.asteroids)) THEN w
    ELSE IF lo = hi THEN PairStep(w, i, lo)
    ELSE LET mid == (lo + hi) \div 2
         IN  PairRow(PairRow(w, i, lo, mid), i, mid + 1, hi)

\* Lines 445-507: the outer loop, the asteroids lo..hi in order.
RECURSIVE PairLoop(_, _, _)
PairLoop(w, lo, hi) ==
    IF lo > Min(hi, Len(w.asteroids)) THEN w
    ELSE IF lo = hi THEN PairRow(w, lo, lo + 1, Len(w.asteroids))
    ELSE LET mid == (lo + hi) \div 2
         IN  PairLoop(PairLoop(w, lo, mid), mid + 1, hi)

\* The last asteroid, in the order of the collection, the laser lies within.
FirstHitLast(asts, l) ==
    LET hit == {k \in 1..Len(asts) : Within(l.position, asts[k].position, asts[k].radius)}
    IN  IF hit = {} THEN 0 ELSE CHOOSE k \in hit : \A m \in hit : k >= m

\* Lines 516-517: the first asteroid, in the order of the collection, the laser
\* lies within; 0 when there is none.
FirstHit(asts, l) ==
    LET hit == {k \in 1..Len(asts) : Within(l.position, asts[k].position, asts[k].radius)}
    IN  IF hit = {} THEN 0 ELSE CHOOSE k \in hit : \A m \in hit : k <= m

\* Lines 570-573: the laser has left the arena.
LaserOffScreen(l) ==
    \/ l.position.x > screen_width
    \/ l.position.y > screen_height
    \/ l.position.x < 0
    \/ l.position.y < 0

\* Line 563.
ScoreKill(n) == n + 1

\* Lines 518-565: laser l has hit asteroid k.
LaserHit(w, l, k, angles) ==
    LET a == Asteroid_take_hit(w.asteroids[k])
        w1 == [w EXCEPT !.asteroids[k] = a,
                        !.remove_laser_ids = @ \cup {l.id},
                        !.laser_hits = Append(@, [laser |-> l.id, asteroid |-> a.id])]
    IN  IF a.health # 0 THEN w1
        ELSE
        LET w2 == [w1 EXCEPT !.remove_asteroid_ids = @ \cup {a.id},
                             !.score = ScoreKill(@),
                             !.kills = Append(@, a.id)]
        IN  IF ~Splits(a) THEN w2
            ELSE [w2 EXCEPT
                    !.particles = @ \o Burst(SPLIT_PARTICLES),
                    !.split_asteroids =
                        @ \o SplitChildren(a, w2.asteroid_counter,
                                           angles[Len(w2.splits) + 1]),
                    !.splits = Append(@, SplitRecord(a, "laser", w2.asteroid_counter)),
                    !.asteroid_counter = @ + 2]

\* Line 517: the ids, in the order of the collection, of the asteroids laser l
\* lies within.
LaserWithin(asts, l) ==
    LET Holds(a) == Within(l.position, a.position, a.radius)
        inside == SelectSeq(asts, Holds)
    IN  [k \in 1..Len(inside) |-> inside[k].id]

\* Lines 512-577, one laser: advance, first asteroid hit, off-screen test.
LaserStep(w, i, frame_time, angles) ==
    LET l == Laser_tick(w.lasers[i], frame_time)
        w1 == [w EXCEPT !.lasers[i] = l,
                        !.within = Append(@, [laser |-> l.id,
                                              asteroids |-> LaserWithin(w.asteroids, l)])]
        k == FirstHit(w1.asteroids, l)
        w2 == IF k = 0 THEN w1 ELSE LaserHit(w1, l, k, angles)
    IN  IF LaserOffScreen(l)
        THEN [w2 EXCEPT !.remove_laser_ids = @ \cup {l.id}]
        ELSE w2

\* Lines 510-577: the lasers lo..hi in order.
RECURSIVE LaserLoop(_, _, _, _, _)
LaserLoop(w, lo, hi, frame_time, angles) ==
    IF lo > Min(hi, Len(w.lasers)) THEN w
    ELSE IF lo = hi THEN LaserStep(w, lo, frame_time, angles)
    ELSE LET mid == (lo + hi) \div 2
         IN  LaserLoop(LaserLoop(w, lo, mid, frame_time, angles),
                       mid + 1, hi, frame_time, angles)

\* A filter that drops nothing.
RetainAll(seq, ids) ==
    LET Kept(x) == TRUE
    IN  SelectSeq(seq, Kept)

\* Lines 579-591: the elements of a collection whose id is not in the set.
Retain(seq, ids) ==
    LET Kept(x) == x.id \notin ids
    IN  SelectSeq(seq, Kept)

\* Lines 598-600: the particles age, the dead ones go.
RetainAlive(ps) ==
    LET Alive(p) == p > 0
    IN  SelectSeq(ps, Alive)

UpdateParticles(ps, frame_time) ==
    RetainAlive([k \in 1..Len(ps) |-> Particle_tick(ps[k], frame_time)])

\* The step of lines 603-605 with a fault: the timer is never counted down.
DeathTimerTickNone(t, frame_time) == t

\* Lines 603-605.
DeathTimerTick(t, frame_time) == IF t > 0 THEN t - frame_time ELSE t

-----------------------------------------------------------------------------
(* Game::generate_asteroids.  The random draws of a slot (radius, place    *)
(* along the edge, jitter of the direction) range over the sets of the     *)
(* environment e; the result is the set of all outcomes.                   *)

center == Vec2(screen_width \div 2, screen_height \div 2)

\* The directions (cos a, sin a) of the grid: the integer vectors of length UNIT.
DIRS ==
    {Vec2(25, 0), Vec2(24, 7), Vec2(20, 15), Vec2(15, 20), Vec2(7, 24),
     Vec2(0, 25), Vec2(-7, 24), Vec2(-15, 20), Vec2(-20, 15), Vec2(-24, 7),
     Vec2(-25, 0), Vec2(-24, -7), Vec2(-20, -15), Vec2(-15, -20), Vec2(-7, -24),
     Vec2(0, -25), Vec2(7, -24), Vec2(15, -20), Vec2(20, -15), Vec2(24, -7)}

\* Lines 621-629.
check_overlap(new_pos, new_radius, existing) ==
    \E k \in 1..Len(existing) :
        LET min_distance == new_radius + existing[k].radius + OVERLAP_PADDING
        IN  Within(new_pos, existing[k].position, min_distance)

\* Lines 637-639, ...: the draws gen_range(min_radius, max_radius) and
\* gen_range(radius, extent - radius) of one attempt on boundary b.
Draws(e, b) ==
    LET extent == IF b \in {"left", "right"} THEN screen_height ELSE screen_width
    IN  {c \in [radius : e.radii[b], at : e.places[b]] :
            /\ min_radius <= c.radius /\ c.radius < max_radius
            /\ c.radius <= c.at /\ c.at < extent - c.radius}

\* The place of a draw on its boundary.
SpawnPosition(b, c) ==
    CASE b = "left" -> Vec2(0, c.at)
      [] b = "top" -> Vec2(c.at, 0)
      [] b = "right" -> Vec2(screen_width, c.at)
      [] b = "bottom" -> Vec2(c.at, screen_height)

\* Lines 642-649, ...: the directions angle_toward_center + gen_range(0, 30):
\* those of the grid that lie at an angle in [0, 30) degrees from the vector
\* delta toward the centre.
SpawnDirections(e, pos) ==
    LET delta == Vec2(center.x - pos.x, center.y - pos.y)
    IN  {u \in e.jitter \cap DIRS :
            /\ Cross(delta, u) >= 0
            /\ Dot(delta, u) > 0
            /\ Cross(delta, u) * 10000 < Dot(delta, u) * Tan10000(angle_variation_degrees)}

\* Lines 650-661, ...: the asteroid of an accepted draw is pushed.
Spawned(st, b, c, u) ==
    LET pos == SpawnPosition(b, c)
        x_vel == (speed * u.x) \div UNIT
        y_vel == (speed * u.y) \div UNIT
    IN  [st EXCEPT !.asteroid_counter = @ + 1,
                   !.asteroids = Append(@, Asteroid_new(pos.x, pos.y, x_vel, y_vel,
                                                        c.radius, st.asteroid_counter + 1)),
                   !.spawned = Append(@, st.asteroid_counter + 1)]

\* What a slot did: the attempts it made and whether it pushed an asteroid.
SlotRecord(attempts, placed) == [attempts |-> attempts, placed |-> placed]

\* The attempts of a slot whose giving up takes an id all the same.
RECURSIVE PlaceAttemptsCounted(_, _, _, _)
PlaceAttemptsCounted(placed, blocked, st, attempts) ==
    IF attempts < max_attempts
    THEN {[p EXCEPT !.slots = Append(@, SlotRecord(attempts + 1, TRUE))] : p \in placed}
         \cup (IF blocked
               THEN PlaceAttemptsCounted(placed, blocked, st, attempts + 1)
               ELSE {})
    ELSE {[st EXCEPT !.skipped = @ + 1, !.asteroid_counter = @ + 1,
                     !.slots = Append(@, SlotRecord(attempts, FALSE))]}

\* Lines 636-665, ...: the attempts of one slot, from the given count on.  An
\* attempt whose draw is free pushes its asteroid and ends the slot (placed:
\* the outcomes of that); one whose draw overlaps (blocked: there is such a
\* draw) goes on to the next attempt; after max_attempts the slot is given up.
RECURSIVE PlaceAttempts(_, _, _, _)
PlaceAttempts(placed, blocked, st, attempts) ==
    IF attempts < max_attempts
    THEN {[p EXCEPT !.slots = Append(@, SlotRecord(attempts + 1, TRUE))] : p \in placed}
         \cup (IF blocked
               THEN PlaceAttempts(placed, blocked, st, attempts + 1)
               ELSE {})
    ELSE {[st EXCEPT !.skipped = @ + 1,
                     !.slots = Append(@, SlotRecord(attempts, FALSE))]}

\* One slot of boundary b.
Slot(e, b, st) ==
    LET free == {c \in Draws(e, b) :
                    ~check_overlap(SpawnPosition(b, c), c.radius, st.asteroids)}
        placed == UNION {{Spawned(st, b, c, u) :
                             u \in SpawnDirections(e, SpawnPosition(b, c))} : c \in free}
    IN  PlaceAttempts(placed, free # Draws(e, b), st, 0)

\* Lines 632-666, ...: the n slots of one boundary, over a set of outcomes.
RECURSIVE BoundarySlots(_, _, _, _)
BoundarySlots(e, b, sts, n) ==
    IF sts = {} \/ n = 0 THEN sts
    ELSE UNION {Slot(e, b, st) : st \in BoundarySlots(e, b, sts, n - 1)}

\* Line 612.
SpawnDeficit(count) == max_asteroids - Min(count, max_asteroids)

\* The share of a boundary with a fault: the division rounds up.
PerBoundaryUp(num_asteroids) == (num_asteroids + 3) \div 4

\* Line 613.
PerBoundary(num_asteroids) == num_asteroids \div 4

generate_asteroids(e, asts, counter) ==
    LET num_asteroids == SpawnDeficit(Len(asts))
        asteroids_per_boundary == PerBoundary(num_asteroids)
        st0 == [asteroids |-> asts, asteroid_counter |-> counter,
                spawned |-> << >>, skipped |-> 0, slots |-> << >>]
        s1 == BoundarySlots(e, "left", {st0}, asteroids_per_boundary)
        s2 == BoundarySlots(e, "top", s1, asteroids_per_boundary)
        s3 == BoundarySlots(e, "right", s2, asteroids_per_boundary)
    IN  BoundarySlots(e, "bottom", s3, asteroids_per_boundary)

-----------------------------------------------------------------------------
(* The step of Game::tick as a whole, and Game::check_game_over.           *)

\* What a frame leaves in last when it did nothing of the kind.
NoRecord ==
    [call |-> "none", frame_time |-> 0, keys |-> {}, was_playing |-> FALSE,
     reported |-> FALSE, pre |-> << >>,
     fired |-> FALSE, contacts |-> << >>, damage |-> 0, deaths |-> 0,
     splits |-> << >>, kills |-> << >>, laser_hits |-> << >>, within |-> << >>,
     cleared |-> {}, bounced |-> {}, exempted |-> {},
     remove_asteroid_ids |-> {}, remove_laser_ids |-> {},
     spawned |-> << >>, skipped |-> 0, slots |-> << >>]

\* The working record at the start of tick.
TickStart ==
    [player |-> player, asteroids |-> asteroids, asteroid_counter |-> asteroid_counter,
     lasers |-> lasers, laser_counter |-> laser_counter,
     laser_cooldown_remaining |-> laser_cooldown_remaining, score |-> score,
     particles |-> particles, death_timer |-> death_timer,
     remove_asteroid_ids |-> {}, split_asteroids_from_collision |-> << >>,
     remove_laser_ids |-> {}, split_asteroids |-> << >>,
     fired |-> FALSE, contacts |-> << >>, damage |-> 0, deaths |-> 0,
     splits |-> << >>, kills |-> << >>, laser_hits |-> << >>, within |-> << >>,
     cleared |-> {}, bounced |-> {}, exempted |-> {}]

\* Lines 302-577: tick up to the end of the detection passes.
TickPasses(w, frame_time, keys, angles) ==
    LET w1 == [w EXCEPT !.player = MoveShip(@, frame_time, keys)]
        w2 == Fire(w1, keys)
        w3 == [w2 EXCEPT !.laser_cooldown_remaining = CooldownTick(@, frame_time),
                         !.player = IframesTick(@)]
        w4 == ShipAsteroidLoop(w3, 1, Len(w3.asteroids), frame_time, angles)
        w5 == PairLoop(w4, 1, Len(w4.asteroids))
    IN  LaserLoop(w5, 1, Len(w5.lasers), frame_time, angles)

\* The filter with a fault: the asteroids are not filtered.
TickFilterLasersOnly(w) ==
    [w EXCEPT !.lasers = Retain(@, w.remove_laser_ids)]

\* Lines 579-591: the marked asteroids and lasers are filtered out.
TickFilter(w) ==
    [w EXCEPT !.asteroids = Retain(@, w.remove_asteroid_ids),
              !.lasers = Retain(@, w.remove_laser_ids)]

\* Lines 595-596: the side buffers are merged after the spawner has run.
MergeSplits(spawned_asteroids, w) ==
    spawned_asteroids \o w.split_asteroids \o w.split_asteroids_from_collision

\* check_game_over with a fault: the death timer is not looked at.
check_game_over_no_delay(p, timer, sc) ==
    IF p.health = 0 THEN TRUE
    ELSE IF sc = WIN_SCORE THEN TRUE
    ELSE FALSE

\* Lines 780-793.
check_game_over(p, timer, sc) ==
    IF p.health = 0 /\ timer <= 0 THEN TRUE
    ELSE IF sc = WIN_SCORE THEN TRUE
    ELSE FALSE

\* The directions of as many splits as the tick makes: their number does not
\* depend on the directions, the children being held in the side buffers.
AnyAngles == [k \in 1..64 |-> Vec2(UNIT, 0)]

SplitCount(w, frame_time, keys) == Len(TickPasses(w, frame_time, keys, AnyAngles).splits)

\* The session's fields before a frame, kept for the properties.
PreState ==
    [player |-> player, asteroids |-> asteroids, asteroid_counter |-> asteroid_counter,
     lasers |-> lasers, laser_counter |-> laser_counter,
     laser_cooldown_remaining |-> laser_cooldown_remaining, score |-> score,
     death_timer |-> death_timer, particles |-> Len(particles),
     since_fire |-> since_fire, since_death |-> since_death,
     game_started |-> game_started, game_over |-> game_over]

\* The frame times of the ticks since the last firing tick, that tick included,
\* counted up to laser_cooldown; -1 before the first firing.
SinceFire(fired, frame_time) ==
    IF fired THEN Min(frame_time, laser_cooldown)
    ELSE IF since_fire < 0 THEN since_fire
    ELSE Min(since_fire + frame_time, laser_cooldown)

\* The frame times of the ticks since the tick in which the ship died, that
\* tick included, counted up to DEATH_DELAY; -1 while the ship has not died.
SinceDeath(deaths, frame_time) ==
    IF deaths > 0 THEN Min(frame_time, DEATH_DELAY)
    ELSE IF since_death < 0 THEN since_death
    ELSE Min(since_death + frame_time, DEATH_DELAY)

\* Game::tick(frame_time) with the keys held, in environment e.
tick(e, frame_time, keys) ==
    \E angles \in [1..SplitCount(TickStart, frame_time, keys) -> e.angles] :
        \E w \in {TickFilter(TickPasses(TickStart, frame_time, keys, angles))} :
            \E g \in generate_asteroids(e, w.asteroids, w.asteroid_counter) :
                /\ player' = w.player
                /\ asteroids' = MergeSplits(g.asteroids, w)
                /\ asteroid_counter' = g.asteroid_counter
                /\ lasers' = w.lasers
                /\ laser_counter' = w.laser_counter
                /\ laser_cooldown_remaining' = w.laser_cooldown_remaining
                /\ score' = w.score
                /\ particles' = UpdateParticles(w.particles, frame_time)
                /\ death_timer' = DeathTimerTick(w.death_timer, frame_time)
                /\ since_fire' = SinceFire(w.fired, frame_time)
                /\ since_death' = SinceDeath(w.deaths, frame_time)
                /\ last' = [call |-> "tick", frame_time |-> frame_time, keys |-> keys,
                            was_playing |-> game_started /\ ~game_over,
                            reported |-> check_game_over(w.player, death_timer', w.score),
                            pre |-> PreState,
                            fired |-> w.fired, contacts |-> w.contacts,
                            damage |-> w.damage, deaths |-> w.deaths,
                            splits |-> w.splits, kills |-> w.kills,
                            laser_hits |-> w.laser_hits, within |-> w.within,
                            cleared |-> w.cleared,
                            bounced |-> w.bounced, exempted |-> w.exempted,
                            remove_asteroid_ids |-> w.remove_asteroid_ids,
                            remove_laser_ids |-> w.remove_laser_ids,
                            spawned |-> g.spawned, skipped |-> g.skipped,
                            slots |-> g.slots]

\* Game::reset() with a fault: the two id counters start again from 0.
reset_counters(e) ==
    \E g \in generate_asteroids(e, << >>, 0) :
        /\ asteroids' = g.asteroids
        /\ asteroid_counter' = g.asteroid_counter
        /\ lasers' = << >>
        /\ laser_counter' = 0
        /\ player' = Ship_new(center.x, center.y)
        /\ score' = 0
        /\ particles' = << >>
        /\ death_timer' = 0
        /\ since_death' = -1
        /\ UNCHANGED <<laser_cooldown_remaining, since_fire>>
        /\ last' = [NoRecord EXCEPT !.call = "reset", !.keys = {"Enter"},
                                    !.was_playing = game_started /\ ~game_over,
                                    !.pre = PreState,
                                    !.spawned = g.spawned, !.skipped = g.skipped,
                                    !.slots = g.slots]

\* Game::reset(), lines 264-276.
reset(e) ==
    \E g \in generate_asteroids(e, << >>, asteroid_counter) :
        /\ asteroids' = g.asteroids
        /\ asteroid_counter' = g.asteroid_counter
        /\ lasers' = << >>
        /\ player' = Ship_new(center.x, center.y)
        /\ score' = 0
        /\ particles' = << >>
        /\ death_timer' = 0
        /\ since_death' = -1
        /\ UNCHANGED <<laser_counter, laser_cooldown_remaining, since_fire>>
        /\ last' = [NoRecord EXCEPT !.call = "reset", !.keys = {"Enter"},
                                    !.was_playing = game_started /\ ~game_over,
                                    !.pre = PreState,
                                    !.spawned = g.spawned, !.skipped = g.skipped,
                                   !.slots = g.slots]

-----------------------------------------------------------------------------
(* main: one iteration of the loop, lines 810-831.                         *)

\* The test of line 819 with a fault: game_started is not looked at.
PlayingUnstarted == ~game_over

\* Line 819.
Playing == ~game_over /\ game_started

\* The model follows the loop for the number of frames of e.
WithinBounds(e) == frames < e.max_frames

\* Lines 819-821 and 828: the session is ticked, then asked whether it is over.
FrameTick(e) ==
    /\ Playing
    /\ WithinBounds(e)
    /\ \E frame_time \in e.frame_times, keys \in e.key_sets : tick(e, frame_time, keys)
    /\ game_over' = check_game_over(player', death_timer', score')
    /\ frames' = frames + 1
    /\ UNCHANGED game_started

\* Line 822: is_key_down(KeyCode::Enter), as the player of e answers a prompt:
\* in any frame of it, or in the frame after its first.
EnterDown(e) == e.enter = "any frame" \/ last.call = "idle"

EnterUp(e) == e.enter = "any frame" \/ last.call # "idle"

\* Lines 822-826: Enter restarts a session that is not being played.
FrameReset(e) ==
    /\ ~Playing
    /\ EnterDown(e)
    /\ WithinBounds(e)
    /\ reset(e)
    /\ game_over' = FALSE
    /\ game_started' = TRUE
    /\ frames' = frames + 1

\* Lines 822 and 828: nothing is held; the session is asked whether it is over.
FrameIdle(e) ==
    /\ ~Playing
    /\ EnterUp(e)
    /\ WithinBounds(e)
    /\ frames' = frames + 1
    /\ game_over' = check_game_over(player, death_timer, score)
    /\ last' = [NoRecord EXCEPT !.call = "idle",
                                !.was_playing = game_started /\ ~game_over,
                                !.reported = check_game_over(player, death_timer, score),
                                !.pre = PreState]
    /\ UNCHANGED <<player, asteroids, asteroid_counter, lasers, laser_counter,
                   laser_cooldown_remaining, score, particles, death_timer,
                   game_started, since_fire, since_death>>

\* Game::new(), lines 239-262, and the locals of main, lines 806-808.
Game_new(e) ==
    \E g \in generate_asteroids(e, << >>, 0) :
        /\ player = Ship_new(center.x, center.y)
        /\ asteroids = g.asteroids
        /\ asteroid_counter = g.asteroid_counter
        /\ lasers = << >>
        /\ laser_counter = 0
        /\ laser_cooldown_remaining = 0
        /\ score = 0
        /\ particles = << >>
        /\ death_timer = 0
        /\ game_started = FALSE
        /\ game_over = FALSE
        /\ since_fire = -1
        /\ since_death = -1
        /\ frames = 0
        /\ last = [NoRecord EXCEPT !.call = "new",
                                   !.spawned = g.spawned, !.skipped = g.skipped,
                                   !.slots = g.slots]

-----------------------------------------------------------------------------
(* The main specification: a player who holds or releases the fire key in  *)
(* every frame, frames of 0.1 s and 0.2 s, and the draws of the random     *)
(* number generator: one radius and one place for each boundary, the       *)
(* direction straight toward the arena, one direction of split.            *)

MaxFrames == 5

\* A value for each of the four boundaries.
Boundaries(left, top, right, bottom) ==
    [b \in {"left", "top", "right", "bottom"} |->
        CASE b = "left" -> left [] b = "top" -> top
          [] b = "right" -> right [] b = "bottom" -> bottom]

AXES == {Vec2(UNIT, 0), Vec2(0, UNIT), Vec2(-UNIT, 0), Vec2(0, -UNIT)}

Env ==
    [frame_times |-> {100, 200},
     key_sets |-> {{}, {"Space"}},
     radii |-> Boundaries({976}, {976}, {160}, {976}),
     places |-> Boundaries({2000}, {1000}, {2000}, {1000}),
     jitter |-> AXES,
     angles |-> {Vec2(0, UNIT)},
     enter |-> "any frame",
     max_frames |-> MaxFrames]

Init == Game_new(Env)

Tick == FrameTick(Env)

Reset == FrameReset(Env)

Idle == FrameIdle(Env)

Next == Tick \/ Reset \/ Idle

Spec == Init /\ [][Next]_vars

-----------------------------------------------------------------------------
(* The long specification: one long game of a player who holds the fire    *)
(* key in frames of 0.1 s and answers a prompt in its second frame.  The   *)
(* ship is hit, dies and the game is over; the player starts again.        *)

MaxFramesLong == 520

EnvLong ==
    [Env EXCEPT !.frame_times = {100},
                !.key_sets = {{"Space"}},
                !.angles = {Vec2(7, 24)},
                !.enter = "second frame",
                !.max_frames = MaxFramesLong]

InitLong == Game_new(EnvLong)

TickLong == FrameTick(EnvLong)

ResetLong == FrameReset(EnvLong)

IdleLong == FrameIdle(EnvLong)

NextLong == TickLong \/ ResetLong \/ IdleLong

SpecLong == InitLong /\ [][NextLong]_vars

\* A frame of the loop of main was run.
FrameLong == WithinBounds(EnvLong) /\ frames' = frames + 1

\* The long game with a driver that keeps running frames: the loop of main
\* has no exit, so a frame that can be run is run.
SpecLongFair == InitLong /\ [][NextLong]_vars /\ WF_frames(FrameLong)

-----------------------------------------------------------------------------
(* Ship::take_hit on its own: a ship of every health and every count of    *)
(* invincibility frames is hit.                                            *)

InitTakeHit ==
    /\ \E health \in 0..SHIP_HEALTH, iframes \in 0..IFRAMES :
           player = [Ship_new(center.x, center.y) EXCEPT !.health = health,
                                                        !.iframes = iframes]
    /\ asteroids = << >>
    /\ asteroid_counter = 0
    /\ lasers = << >>
    /\ laser_counter = 0
    /\ laser_cooldown_remaining = 0
    /\ score = 0
    /\ particles = << >>
    /\ death_timer = 0
    /\ game_started = FALSE
    /\ game_over = FALSE
    /\ since_fire = -1
    /\ since_death = -1
    /\ frames = 0
    /\ last = NoRecord

TakeHit ==
    /\ player' = Ship_take_hit(player)
    /\ last' = [NoRecord EXCEPT !.call = "take_hit", !.pre = PreState]
    /\ UNCHANGED <<asteroids, asteroid_counter, lasers, laser_counter,
                   laser_cooldown_remaining, score, particles, death_timer,
                   game_started, game_over, since_fire, since_death, frames>>

SpecTakeHit == InitTakeHit /\ [][TakeHit]_vars

-----------------------------------------------------------------------------
(* The pass over the pairs of asteroids on its own (lines 445-507): two    *)
(* asteroids of every combination of radii, of offsets along a direction   *)
(* of the grid (coincident, overlapping, touching, apart), of velocities   *)
(* along and across the line of centres (approaching, at rest, separating) *)
(* and of exemptions.                                                      *)

PairRadii == {244, 488}

PairDirections == {Vec2(25, 0), Vec2(7, 24), Vec2(-15, 20), Vec2(0, -25)}

\* The distance of the centres is UNIT times an offset.
PairOffsets == {0, 16, 30, 40}

\* The speed along the line of centres is UNIT times one of these, asteroid 1
\* toward asteroid 2 and asteroid 2 toward asteroid 1 when it is positive.
PairSpeeds == {-2, 0, 3}

\* The speed across the line of centres is UNIT times one of these.
PairDrifts == {0, 1}

\* The direction u turned by 90 degrees.
Perp(u) == Vec2(-u.y, u.x)

InitPair ==
    /\ \E r1 \in PairRadii, r2 \in PairRadii, u \in PairDirections, k \in PairOffsets,
          n \in PairSpeeds, t \in PairDrifts, ig1 \in {None, 2} :
           asteroids =
               << [Asteroid_new(center.x, center.y,
                                n * u.x + t * Perp(u).x, n * u.y + t * Perp(u).y, r1, 1)
                      EXCEPT !.ignore_collision_with = ig1],
                  [Asteroid_new(center.x + k * u.x, center.y + k * u.y,
                                -n * u.x - t * Perp(u).x, -n * u.y - t * Perp(u).y, r2, 2)
                      EXCEPT !.ignore_collision_with = IF ig1 = None THEN None ELSE 1] >>
    /\ player = Ship_new(center.x, center.y)
    /\ asteroid_counter = 2
    /\ lasers = << >>
    /\ laser_counter = 0
    /\ laser_cooldown_remaining = 0
    /\ score = 0
    /\ particles = << >>
    /\ death_timer = 0
    /\ game_started = FALSE
    /\ game_over = FALSE
    /\ since_fire = -1
    /\ since_death = -1
    /\ frames = 0
    /\ last = NoRecord

\* Lines 445-507 applied to the collection.
PairPass ==
    \E w \in {PairLoop(TickStart, 1, Len(asteroids))} :
        /\ asteroids' = w.asteroids
        /\ particles' = w.particles
        /\ last' = [NoRecord EXCEPT !.call = "pair_pass", !.pre = PreState,
                                    !.cleared = w.cleared, !.bounced = w.bounced,
                                    !.exempted = w.exempted]
        /\ UNCHANGED <<player, asteroid_counter, lasers, laser_counter,
                       laser_cooldown_remaining, score, death_timer,
                       game_started, game_over, since_fire, since_death, frames>>

SpecPair == InitPair /\ [][PairPass]_vars

-----------------------------------------------------------------------------
(* generate_asteroids on its own (lines 608-778): it is called on a         *)
(* collection of every size around max_asteroids, of small asteroids in the *)
(* middle of the arena that leave the edges free.  The left edge has two    *)
(* places to draw, far enough from each other, the other edges have one.    *)

\* The sizes of the collection the spawner is called on.
SpawnCounts == 0..(max_asteroids + 2)

\* The k-th asteroid of the collection: a grid in the middle of the arena.
Existing(k) ==
    Asteroid_new(600 + 250 * ((k - 1) % 4), 1400 + 250 * ((k - 1) \div 4),
                 0, speed, min_radius, k)

EnvSpawn ==
    [Env EXCEPT !.radii = Boundaries({200}, {200}, {200}, {200}),
                !.places = Boundaries({1000, 3000}, {1000}, {2000}, {1000}),
                !.jitter = AXES \cup {Vec2(15, 20), Vec2(20, -15)}]

InitSpawn ==
    /\ \E n \in SpawnCounts :
           /\ asteroids = [k \in 1..n |-> Existing(k)]
           /\ asteroid_counter = n
    /\ player = Ship_new(center.x, center.y)
    /\ lasers = << >>
    /\ laser_counter = 0
    /\ laser_cooldown_remaining = 0
    /\ score = 0
    /\ particles = << >>
    /\ death_timer = 0
    /\ game_started = TRUE
    /\ game_over = FALSE
    /\ since_fire = -1
    /\ since_death = -1
    /\ frames = 0
    /\ last = NoRecord

\* One call of generate_asteroids, and the extend of line 596.
Generate ==
    \E g \in generate_asteroids(EnvSpawn, asteroids, asteroid_counter) :
        /\ asteroids' = g.asteroids
        /\ asteroid_counter' = g.asteroid_counter
        /\ last' = [NoRecord EXCEPT !.call = "generate", !.pre = PreState,
                                    !.spawned = g.spawned, !.skipped = g.skipped,
                                    !.slots = g.slots]
        /\ UNCHANGED <<player, lasers, laser_counter, laser_cooldown_remaining,
                       score, particles, death_timer, game_started, game_over,
                       since_fire, since_death, frames>>

SpecSpawn == InitSpawn /\ [][Generate]_vars

-----------------------------------------------------------------------------
(* The move of the ship on its own (lines 302-341): a ship at or near the   *)
(* bounds of the arena or in its middle, at rest or moving, pointing along  *)
(* an axis, is moved for a few frames with the movement keys held.  A frame *)
(* of 0.36 s turns the ship by 90 degrees.                                  *)

MaxMoves == 2

\* The places of the ship along an axis of the given extent.
ShipPlaces(extent) == {0, 10, extent \div 2, extent - 10, extent}

\* The components of its velocity, in tenths of a pixel per frame.
ShipSpeeds == {-30, 0, 18}

ShipRotations == {0, 90, 180, 270}

\* The frame time and the keys held of a frame.
MoveInputs ==
    ({100} \X {{}, {"W"}, {"S"}}) \cup ({360} \X {{"W", "A"}, {"S", "D"}, {"D"}})

InitMove ==
    /\ \E x \in ShipPlaces(screen_width), y \in ShipPlaces(screen_height),
          vx \in ShipSpeeds, vy \in ShipSpeeds, rotation \in ShipRotations :
           /\ x \in {0, screen_width} => vx = 0
           /\ y \in {0, screen_height} => vy = 0
           /\ player = [Ship_new(x, y) EXCEPT !.velocity = Vec2(vx, vy),
                                              !.rotation = rotation]
    /\ asteroids = << >>
    /\ asteroid_counter = 0
    /\ lasers = << >>
    /\ laser_counter = 0
    /\ laser_cooldown_remaining = 0
    /\ score = 0
    /\ particles = << >>
    /\ death_timer = 0
    /\ game_started = TRUE
    /\ game_over = FALSE
    /\ since_fire = -1
    /\ since_death = -1
    /\ frames = 0
    /\ last = NoRecord

Move ==
    /\ frames < MaxMoves
    /\ \E input \in MoveInputs :
           /\ player' = MoveShip(player, input[1], input[2])
           /\ last' = [NoRecord EXCEPT !.call = "move", !.frame_time = input[1],
                                       !.keys = input[2], !.pre = PreState]
    /\ frames' = frames + 1
    /\ UNCHANGED <<asteroids, asteroid_counter, lasers, laser_counter,
                   laser_cooldown_remaining, score, particles, death_timer,
                   game_started, game_over, since_fire, since_death>>

SpecMove == InitMove /\ [][Move]_vars

-----------------------------------------------------------------------------
(* The line of descent of an asteroid (lines 401-437 and 524-560): an       *)
(* asteroid of every radius the spawner can draw is destroyed, and if it    *)
(* splits one of its two children is followed and destroyed in its turn.    *)
(* frames counts the splits of the line.                                    *)

\* Lines 615-637: the radii that gen_range(min_radius, max_radius) can draw.
SpawnRadii == min_radius..(max_radius - 1)

InitDescent ==
    /\ \E r \in SpawnRadii :
           asteroids = << Asteroid_new(center.x, center.y, 0, speed, r, 1) >>
    /\ asteroid_counter = 1
    /\ player = Ship_new(center.x, center.y)
    /\ lasers = << >>
    /\ laser_counter = 0
    /\ laser_cooldown_remaining = 0
    /\ score = 0
    /\ particles = << >>
    /\ death_timer = 0
    /\ game_started = TRUE
    /\ game_over = FALSE
    /\ since_fire = -1
    /\ since_death = -1
    /\ frames = 0
    /\ last = NoRecord

\* The asteroid is destroyed and splits; child c takes its place.
Descend ==
    /\ Splits(asteroids[1])
    /\ \E c \in 1..2 :
           asteroids' = << SplitChildren(asteroids[1], asteroid_counter, Vec2(0, UNIT))[c] >>
    /\ asteroid_counter' = asteroid_counter + 2
    /\ frames' = frames + 1
    /\ last' = [NoRecord EXCEPT !.call = "split", !.pre = PreState,
                                !.splits = << SplitRecord(asteroids[1], "laser",
                                                          asteroid_counter) >>]
    /\ UNCHANGED <<player, lasers, laser_counter, laser_cooldown_remaining,
                   score, particles, death_timer, game_started, game_over,
                   since_fire, since_death>>

SpecDescent == InitDescent /\ [][Descend]_vars

-----------------------------------------------------------------------------
(* Properties.                                                             *)

\* The ids of the elements of a collection.
Ids(seq) == {seq[k].id : k \in 1..Len(seq)}

\* The values of a sequence.
Range(seq) == {seq[k] : k \in 1..Len(seq)}

\* The element of a collection with the given id (there is one).
ById(seq, id) == seq[CHOOSE k \in 1..Len(seq) : seq[k].id = id]

\* C1: after Game::new and after every tick and reset, no two asteroids of
\* the collection share an id and no two lasers share an id, whether the ids
\* were given by the spawner, by a split on the ship or by a split on a laser.
UniqueIds ==
    /\ Cardinality(Ids(asteroids)) = Len(asteroids)
    /\ Cardinality(Ids(lasers)) = Len(lasers)

\* A tick that gave ids by all three: a split on the ship, a split on a laser
\* and the spawner, with a laser left in flight.
UniqueIdsWitness ==
    /\ last.call = "tick"
    /\ \E k \in 1..Len(last.splits) : last.splits[k].by = "ship"
    /\ \E k \in 1..Len(last.splits) : last.splits[k].by = "laser"
    /\ Len(last.spawned) > 0
    /\ Len(lasers) > 0

\* C2: Ship::take_hit changes the ship only when iframes = 0 and health > 0:
\* then health goes down by exactly 1 and iframes becomes 120; otherwise health
\* and iframes stay, so health never goes down while iframes > 0.
TakeHitContract ==
    last.call = "take_hit" =>
        LET s == last.pre.player
        IN  /\ s.iframes = 0 /\ s.health > 0 =>
                  player = [s EXCEPT !.health = s.health - 1, !.iframes = 120]
            /\ s.iframes > 0 \/ s.health = 0 => player = s
            /\ s.iframes > 0 => player.health >= s.health

\* A hit that did damage.
TakeHitWitness ==
    /\ last.call = "take_hit"
    /\ last.pre.player.iframes = 0
    /\ last.pre.player.health = 3
    /\ player.health = 2
    /\ player.iframes = 120

\* C3: in every tick the score goes up by exactly the number of distinct
\* asteroids a laser killed in that tick, 1 for each, split or not.
ScorePerKilledAsteroid ==
    last.call = "tick" => score = last.pre.score + Cardinality(Range(last.kills))

\* The splits of a tick that have the given asteroid as their parent.
SplitsOf(id) == {k \in 1..Len(last.splits) : last.splits[k].parent = id}

\* The asteroids of the collection that a split of the tick made of the parent.
ChildrenOf(id) ==
    {c \in 1..Len(asteroids) :
        \E k \in SplitsOf(id) : asteroids[c].id \in {last.splits[k].id1, last.splits[k].id2}}

\* C4: every asteroid of radius > 20 that a tick destroys on the ship or by a
\* laser is replaced by exactly two children, of half its radius, at its place,
\* whatever hit it in that tick; one of radius <= 20 goes without children.
TwoChildrenPerParent ==
    last.call = "tick" =>
        \A k \in 1..Len(last.pre.asteroids) :
            LET a == last.pre.asteroids[k]
            IN  a.id \in Range(last.contacts) \cup Range(last.kills) =>
                    /\ Cardinality(ChildrenOf(a.id)) = IF a.radius > 200 THEN 2 ELSE 0
                    /\ \A c \in ChildrenOf(a.id) :
                           /\ asteroids[c].radius * 2 = a.radius
                           /\ \E s \in SplitsOf(a.id) :
                                  asteroids[c].position = last.splits[s].position

\* The pair of asteroids took part in a bounce of the tick.
Bounced(a, b) == \E p \in last.bounced : a.id \in p \/ b.id \in p

\* C5: the two children of a split are created exempt from each other, by
\* their fresh ids; of two asteroids of the collection, one is exempt from the
\* other if and only if the other is exempt from it; and the first pass over
\* the pairs that finds the two apart (centre distance >= the sum of the radii)
\* clears both exemptions, so a pair still exempt after a pass overlaps.
SplitExemptions ==
    /\ \A i, j \in 1..Len(asteroids) :
           asteroids[i].ignore_collision_with = asteroids[j].id
               <=> asteroids[j].ignore_collision_with = asteroids[i].id
    /\ last.call = "tick" =>
           /\ \A k \in 1..Len(last.splits) :
                  LET s == last.splits[k]
                  IN  /\ s.id1 # s.id2
                      /\ s.id1 > last.pre.asteroid_counter
                      /\ s.id2 > last.pre.asteroid_counter
                      /\ {s.id1, s.id2} \subseteq Ids(asteroids)
                      /\ ById(asteroids, s.id1).ignore_collision_with = s.id2
                      /\ ById(asteroids, s.id2).ignore_collision_with = s.id1
           /\ \A p \in last.cleared :
                  \A i \in 1..Len(asteroids) :
                      asteroids[i].id \in p => asteroids[i].ignore_collision_with = None
           /\ \A i, j \in 1..Len(asteroids) :
                  LET a == asteroids[i]
                      b == asteroids[j]
                  IN  /\ {a.id, b.id} \subseteq Ids(last.pre.asteroids)
                      /\ a.ignore_collision_with = b.id
                      /\ ~Bounced(a, b)
                      => Within(a.position, b.position, a.radius + b.radius)

\* A tick whose pass cleared the exemptions of two children that had moved
\* apart, both of them still in the collection, while another pair stayed
\* exempt.
SplitExemptionsWitness ==
    /\ last.call = "tick"
    /\ \E p \in last.cleared :
           /\ p \subseteq Ids(asteroids)
           /\ \A i \in 1..Len(asteroids) :
                  asteroids[i].id \in p => /\ asteroids[i].ignore_collision_with = None
                                           /\ asteroids[i].id > 4
    /\ \E i, j \in 1..Len(asteroids) :
           /\ {asteroids[i].id, asteroids[j].id} \subseteq Ids(last.pre.asteroids)
           /\ asteroids[i].ignore_collision_with = asteroids[j].id

\* C6: a tick creates a laser only if the fire key is down and the cooldown
\* has run out at the firing check, and at most one; with fire held, the frame
\* times of the ticks from a firing tick up to the next firing tick, that one
\* excluded, sum to at least laser_cooldown, and the next firing comes in
\* the first tick where they do.
FiringCooldown ==
    last.call = "tick" =>
        /\ last.fired <=> /\ "Space" \in last.keys
                          /\ \/ last.pre.since_fire < 0
                             \/ last.pre.since_fire >= laser_cooldown
        /\ last.fired => last.pre.laser_cooldown_remaining <= 0
        /\ laser_counter = last.pre.laser_counter + (IF last.fired THEN 1 ELSE 0)
        /\ Ids(lasers) \ Ids(last.pre.lasers) \subseteq
               (IF last.fired THEN {laser_counter} ELSE {})

\* A second firing: fire held, the ticks since the last firing sum to the
\* cooldown, and the new laser is in flight.
FiringCooldownWitness ==
    /\ last.call = "tick"
    /\ last.fired
    /\ last.pre.since_fire >= laser_cooldown
    /\ last.pre.laser_counter >= 1
    /\ laser_counter \in Ids(lasers)

\* C7: whenever a tick ends with the score at or past the win target,
\* check_game_over reports it in that frame and the driver stops ticking, so
\* no tick starts with score >= 100.
WinStopsTheGame ==
    last.call = "tick" =>
        /\ last.pre.score < WIN_SCORE
        /\ score >= WIN_SCORE => last.reported /\ game_over

\* C8: check_game_over reports the ship's death only with health 0 and
\* death_timer <= 0; the tick in which health goes from > 0 to 0 sets the timer
\* to 1.0, every tick from that one on takes the frame time off it, and the
\* report does not come before the frame times since the death tick, that one
\* included, reach 1.0 s.
DeathDelay ==
    /\ last.call \in {"tick", "idle"} /\ last.reported /\ score # WIN_SCORE =>
           /\ player.health = 0
           /\ death_timer <= 0
           /\ since_death >= 1000
    /\ game_over /\ score # WIN_SCORE => since_death >= 1000
    /\ last.call = "tick" =>
           /\ last.deaths > 0 <=> last.pre.player.health > 0 /\ player.health = 0
           /\ last.deaths > 0 => death_timer = 1000 - last.frame_time
           /\ last.deaths = 0 /\ last.pre.death_timer > 0 =>
                  death_timer = last.pre.death_timer - last.frame_time

\* The tick after which the death is reported: the ship is dead, the timer has
\* run out, a full second of ticks has gone by since the death.
DeathDelayWitness ==
    /\ last.call = "tick"
    /\ last.reported
    /\ game_over
    /\ player.health = 0
    /\ last.pre.death_timer > 0
    /\ death_timer <= 0
    /\ since_death >= 1000

\* C9: after reset every field of the session has the value it has right
\* after Game::new: no lasers, no particles, fresh asteroids, a new ship at the
\* centre, score 0, death_timer 0, laser_cooldown_remaining 0, and the laser and
\* asteroid id counters as at the start of the game.
ResetRestoresStart ==
    last.call = "reset" =>
        /\ lasers = << >>
        /\ particles = << >>
        /\ Len(asteroids) = Len(last.spawned)
        /\ player = Ship_new(center.x, center.y)
        /\ score = 0
        /\ death_timer = 0
        /\ laser_cooldown_remaining = 0
        /\ laser_counter = 0
        /\ asteroid_counter = Len(asteroids)

\* C10: the driver calls tick only while the game is being played (started
\* and not over), and reset only when the game has not started or the last
\* check_game_over said it was over, with Enter down, never while it is being
\* played; after a reset the game is being played.
DriverStates ==
    /\ last.call = "tick" =>
           /\ last.was_playing
           /\ last.pre.game_started
           /\ ~last.pre.game_over
    /\ last.call = "reset" =>
           /\ ~last.was_playing
           /\ ~last.pre.game_started \/ last.pre.game_over
           /\ "Enter" \in last.keys
           /\ game_started
           /\ ~game_over

\* A reset out of a game that was over, after which the game is played again.
DriverStatesWitness ==
    /\ last.call = "reset"
    /\ last.pre.game_started
    /\ last.pre.game_over
    /\ game_started
    /\ ~game_over

\* The ids of the asteroids that, advanced by the tick, have a vertex of the
\* moved ship strictly within their radius.
Touching ==
    LET s == MoveShip(last.pre.player, last.frame_time, last.keys)
    IN  {last.pre.asteroids[k].id : k \in
            {k \in 1..Len(last.pre.asteroids) :
                TouchesShip(s, Asteroid_tick(last.pre.asteroids[k], last.frame_time))}}

\* C11: in a tick where k >= 1 asteroids have a vertex of the ship within
\* their radius, with health > 0 and iframes = 0 after the tick's decrement,
\* health goes down by exactly 1 (not k) and iframes becomes 120; with iframes
\* > 0 health stays; either way all k asteroids are gone after the tick.
ShipContact ==
    last.call = "tick" /\ Touching # {} =>
        LET s == last.pre.player
            iframes == IF s.iframes > 0 THEN s.iframes - 1 ELSE 0
        IN  /\ Touching = Range(last.contacts)
            /\ Touching \cap Ids(asteroids) = {}
            /\ iframes = 0 /\ s.health > 0 =>
                   player.health = s.health - 1 /\ player.iframes = 120
            /\ iframes > 0 =>
                   player.health = s.health /\ player.iframes = iframes

\* A tick in which two or more asteroids touch a ship whose invincibility
\* runs out in that tick: one unit of damage, all of them removed.
ShipContactWitness ==
    /\ last.call = "tick"
    /\ Cardinality(Touching) >= 2
    /\ last.pre.player.iframes = 1
    /\ player.health = last.pre.player.health - 1
    /\ player.iframes = 120
    /\ Touching \cap Ids(asteroids) = {}

\* The vector from the centre of a to the centre of b.
Between(a, b) == Vec2(b.position.x - a.position.x, b.position.y - a.position.y)

\* The pair overlaps with distinct centres, is not exempt, and the velocities
\* are opposite vectors that approach along the line of centres.
HeadOn(a, b) ==
    /\ Dist2(a.position, b.position) > 0
    /\ Within(a.position, b.position, a.radius + b.radius)
    /\ a.ignore_collision_with # b.id
    /\ b.ignore_collision_with # a.id
    /\ b.velocity = Vec2(-a.velocity.x, -a.velocity.y)
    /\ Dot(a.velocity, Between(a, b)) > 0

\* C12: for an overlapping pair that is not exempt, of equal radii, distinct
\* centres and opposite velocities approaching along the line of centres, the
\* pass exchanges the components of the two velocities along the normal (the
\* components across it stay) and moves the centres apart to a distance >= the
\* sum of the radii.
BounceExchange ==
    last.call = "pair_pass" =>
        LET a == last.pre.asteroids[1]
            b == last.pre.asteroids[2]
            d == Between(a, b)
        IN  a.radius = b.radius /\ HeadOn(a, b) =>
                /\ Dot(asteroids[1].velocity, d) = Dot(b.velocity, d)
                /\ Dot(asteroids[2].velocity, d) = Dot(a.velocity, d)
                /\ Cross(d, asteroids[1].velocity) = Cross(d, a.velocity)
                /\ Cross(d, asteroids[2].velocity) = Cross(d, b.velocity)
                /\ ~Within(asteroids[1].position, asteroids[2].position,
                           a.radius + b.radius)

\* A head-on pair of equal radii along an oblique line of centres, drifting
\* across it, after the pass: the velocities have changed and the pair is apart.
BounceExchangeWitness ==
    /\ last.call = "pair_pass"
    /\ last.pre.asteroids[1].radius = last.pre.asteroids[2].radius
    /\ HeadOn(last.pre.asteroids[1], last.pre.asteroids[2])
    /\ Between(last.pre.asteroids[1], last.pre.asteroids[2]).x # 0
    /\ Between(last.pre.asteroids[1], last.pre.asteroids[2]).y # 0
    /\ Cross(Between(last.pre.asteroids[1], last.pre.asteroids[2]),
             last.pre.asteroids[1].velocity) # 0
    /\ asteroids[1].velocity # last.pre.asteroids[1].velocity
    /\ ~Within(asteroids[1].position, asteroids[2].position,
               asteroids[1].radius + asteroids[2].radius)

\* The position and the velocity of an asteroid.
Motion(a) == <<a.position, a.velocity>>

\* C13: the pass changes neither velocity nor position of a pair of which
\* either asteroid is exempt from the other when the pair is examined; the
\* bounce is applied to a pair only if neither is exempt, 0 < distance < the sum
\* of the radii and the pair is approaching; otherwise the pair leaves both
\* velocities and positions as they were.
ExemptPairsUntouched ==
    /\ last.call = "pair_pass" =>
           LET a == last.pre.asteroids[1]
               b == last.pre.asteroids[2]
               d == Between(a, b)
               applies ==
                   /\ a.ignore_collision_with # b.id
                   /\ b.ignore_collision_with # a.id
                   /\ Dist2(a.position, b.position) > 0
                   /\ Within(a.position, b.position, a.radius + b.radius)
                   /\ Dot(Vec2(b.velocity.x - a.velocity.x, b.velocity.y - a.velocity.y), d) < 0
           IN  /\ ~applies => /\ Motion(asteroids[1]) = Motion(a)
                              /\ Motion(asteroids[2]) = Motion(b)
               /\ applies <=> last.bounced # {}
    /\ last.call = "tick" =>
           /\ \A p \in last.bounced :
                  /\ p \notin last.cleared \cup last.exempted
                  /\ \A i, j \in 1..Len(last.pre.asteroids) :
                         {last.pre.asteroids[i].id, last.pre.asteroids[j].id} = p =>
                             last.pre.asteroids[i].ignore_collision_with
                                 # last.pre.asteroids[j].id
           /\ \A i \in 1..Len(last.pre.asteroids) :
                  LET a == last.pre.asteroids[i]
                  IN  a.id \in Ids(asteroids) /\ (\A p \in last.bounced : a.id \notin p) =>
                          Motion(ById(asteroids, a.id))
                              = Motion(Asteroid_tick(a, last.frame_time))

\* An exempt pair that overlaps and approaches, left as it was by the pass.
ExemptPairsUntouchedWitness ==
    /\ last.call = "pair_pass"
    /\ last.pre.asteroids[1].ignore_collision_with = 2
    /\ last.pre.asteroids[2].ignore_collision_with = 1
    /\ Dist2(last.pre.asteroids[1].position, last.pre.asteroids[2].position) > 0
    /\ Within(last.pre.asteroids[1].position, last.pre.asteroids[2].position,
              last.pre.asteroids[1].radius + last.pre.asteroids[2].radius)
    /\ Dot(last.pre.asteroids[1].velocity,
           Between(last.pre.asteroids[1], last.pre.asteroids[2])) > 0
    /\ Motion(asteroids[1]) = Motion(last.pre.asteroids[1])
    /\ Motion(asteroids[2]) = Motion(last.pre.asteroids[2])
    /\ asteroids[1].ignore_collision_with = 2

\* No attempt of the call was rejected: every slot pushed its asteroid at its
\* first attempt.
NoRejection == \A k \in 1..Len(last.slots) : last.slots[k] = SlotRecord(1, TRUE)

\* C14: whenever generate_asteroids runs with fewer than max_asteroids
\* asteroids and no placement is rejected for overlap, it spawns exactly the
\* deficit max_asteroids - count, and the count is max_asteroids when it
\* returns.
SpawnsTheDeficit ==
    (/\ last.call = "generate"
     /\ Len(last.pre.asteroids) < max_asteroids
     /\ NoRejection)
    => /\ Len(last.spawned) = max_asteroids - Len(last.pre.asteroids)
       /\ Len(asteroids) = max_asteroids

\* The slots of the call that pushed an asteroid.
PlacedSlots == {k \in 1..Len(last.slots) : last.slots[k].placed}

\* C15: in generate_asteroids every slot makes at most max_attempts (10)
\* attempts; a slot whose attempts all overlap makes max_attempts of them,
\* adds no asteroid and takes no id, so that the collection and the counter
\* grow by the number of slots that placed; every asteroid added overlaps
\* none of the asteroids that were in the collection when it was placed; and
\* the call ends after its four times asteroids_per_boundary slots.
SpawnSlots ==
    last.call = "generate"
    => LET pre == last.pre
           n == Len(pre.asteroids)
       IN  /\ Len(last.slots) = 4 * PerBoundary(SpawnDeficit(n))
           /\ \A k \in 1..Len(last.slots) :
                  /\ last.slots[k].attempts \in 1..max_attempts
                  /\ ~last.slots[k].placed => last.slots[k].attempts = max_attempts
           /\ last.skipped = Len(last.slots) - Cardinality(PlacedSlots)
           /\ Len(asteroids) = n + Cardinality(PlacedSlots)
           /\ asteroid_counter = pre.asteroid_counter + Cardinality(PlacedSlots)
           /\ SubSeq(asteroids, 1, n) = pre.asteroids
           /\ \A j \in (n + 1)..Len(asteroids) :
                  /\ asteroids[j].id = pre.asteroid_counter + (j - n)
                  /\ ~check_overlap(asteroids[j].position, asteroids[j].radius,
                                    SubSeq(asteroids, 1, j - 1))

\* A call in which one slot gave up after max_attempts attempts, one placed
\* after rejected attempts and one placed at its first attempt.
SpawnSlotsWitness ==
    /\ last.call = "generate"
    /\ \E k \in 1..Len(last.slots) : last.slots[k] = SlotRecord(max_attempts, FALSE)
    /\ \E k \in PlacedSlots : last.slots[k].attempts > 1
    /\ \E k \in PlacedSlots : last.slots[k].attempts = 1

\* The hits of the tick that laser id made.
HitsOf(id) == {h \in 1..Len(last.laser_hits) : last.laser_hits[h].laser = id}

\* After a tick: each laser was advanced once; one that lay within no asteroid
\* hit none; one that lay within some hit the first of them in the order of
\* the collection, and only it, and is gone from the lasers.
OneHitPerTick ==
    last.call = "tick"
    => /\ \A j, k \in 1..Len(last.within) :
              last.within[j].laser = last.within[k].laser => j = k
       /\ \A h \in 1..Len(last.laser_hits) :
              \E k \in 1..Len(last.within) :
                  last.within[k].laser = last.laser_hits[h].laser
       /\ \A k \in 1..Len(last.within) :
              LET e == last.within[k]
              IN  IF e.asteroids = << >>
                  THEN HitsOf(e.laser) = {}
                  ELSE /\ Cardinality(HitsOf(e.laser)) = 1
                       /\ \A h \in HitsOf(e.laser) :
                              last.laser_hits[h].asteroid = e.asteroids[1]
                       /\ e.laser \notin Ids(lasers)

\* C16: a laser that after advancing lies within one or more asteroids of the
\* collection hits the first of them in collection order and no other, and
\* is not in the lasers after that tick; and no step brings back a laser
\* that has left the collection (a laser that enters it has a new id), so a
\* laser hits at most one asteroid in its lifetime.
LaserHitsOnce ==
    [][/\ OneHitPerTick'
       /\ Ids(lasers') \subseteq Ids(lasers) \cup ((laser_counter + 1)..laser_counter')]_vars

\* A tick in which a laser lay within two asteroids at once and hit.
LaserHitsOnceWitness ==
    /\ last.call = "tick"
    /\ \E k \in 1..Len(last.within) : Len(last.within[k].asteroids) > 1
    /\ Len(last.laser_hits) > 0

\* The ids of the children of the splits of the tick.
SplitChildIds == UNION {{s.id1, s.id2} : s \in Range(last.splits)}

\* The ids of the asteroids the passes of the tick met: touched by the ship,
\* looked at as one of a touching pair, hit by a laser or around a laser.
MetInPasses ==
    Range(last.contacts)
    \cup UNION (last.cleared \cup last.bounced \cup last.exempted)
    \cup {h.asteroid : h \in Range(last.laser_hits)}
    \cup UNION {Range(e.asteroids) : e \in Range(last.within)}

\* C17: the children of the splits of a tick are outside the collection
\* during the tick: no pass meets them, and after the tick each child is in
\* the collection as it was created, at the place of its parent, not advanced
\* and unhurt, exempt from its sibling; every asteroid id and laser id marked
\* for removal is absent from its collection after the tick; and the filter
\* drops nothing else: the asteroids spawned in the tick and the children are
\* all in the collection, whose length is that of the start less the marked
\* asteroids plus the spawned ones and two per split.
SideBuffers ==
    last.call = "tick"
    => /\ SplitChildIds \cap (MetInPasses \cup Ids(last.pre.asteroids)) = {}
       /\ \A s \in Range(last.splits) :
              \A c \in {s.id1, s.id2} :
                  \E k \in 1..Len(asteroids) :
                      /\ asteroids[k].id = c
                      /\ asteroids[k].position = s.position
                      /\ asteroids[k].radius = s.radius \div 2
                      /\ asteroids[k].health = 1
                      /\ asteroids[k].ignore_collision_with = s.id1 + s.id2 - c
       /\ last.remove_asteroid_ids \cap Ids(asteroids) = {}
       /\ last.remove_laser_ids \cap Ids(lasers) = {}
       /\ last.remove_asteroid_ids \subseteq Ids(last.pre.asteroids)
       /\ Range(last.spawned) \subseteq Ids(asteroids)
       /\ Len(asteroids) = Len(last.pre.asteroids) - Cardinality(last.remove_asteroid_ids)
                             + Len(last.spawned) + 2 * Len(last.splits)

\* A tick with a split by the ship and a split by a laser, with asteroids and
\* lasers marked for removal, and with an asteroid spawned.
SideBuffersWitness ==
    /\ last.call = "tick"
    /\ \E s \in Range(last.splits) : s.by = "ship"
    /\ \E s \in Range(last.splits) : s.by = "laser"
    /\ last.remove_asteroid_ids # {}
    /\ last.remove_laser_ids # {}
    /\ last.spawned # << >>

\* C18: after every tick no laser of the collection lies outside the arena,
\* and no asteroid that the tick advanced and that is still in the collection
\* has its centre outside the arena extended by its radius.
InsideAfterTick ==
    last.call = "tick"
    => /\ \A k \in 1..Len(lasers) : ~LaserOffScreen(lasers[k])
       /\ \A k \in 1..Len(asteroids) :
              asteroids[k].id \in Ids(last.pre.asteroids)
              => ~AsteroidOffScreen(asteroids[k])

\* C19: after the move of the ship, and so after every tick, the position of
\* the ship is within the arena, 0 <= x <= width and 0 <= y <= height, and
\* whenever its x (y) is at a bound of the arena the x (y) component of its
\* velocity is 0.
ShipInArena ==
    last.call \in {"move", "tick"}
    => /\ 0 <= player.position.x /\ player.position.x <= screen_width
       /\ 0 <= player.position.y /\ player.position.y <= screen_height
       /\ player.position.x \in {0, screen_width} => player.velocity.x = 0
       /\ player.position.y \in {0, screen_height} => player.velocity.y = 0

\* A move that took a moving ship from inside the arena to its right bound
\* and stopped it there along x, while it went on along y.
ShipInArenaWitness ==
    /\ last.call = "move"
    /\ last.pre.player.position.x < screen_width
    /\ last.pre.player.velocity.x > 10
    /\ player.position.x = screen_width
    /\ player.velocity.x = 0
    /\ player.velocity.y # 0
    /\ player.position.y \notin {0, screen_height}

\* What a step that is not a reset does to a ship of health 0: the health
\* stays 0, nothing is counted as damage or as a death, the invincibility
\* frames and the death timer only run down in a tick (contacts leave them
\* alone: the timer is not set again) and are untouched otherwise.
DeadShipStep ==
    player.health = 0 /\ last'.call # "reset"
    => /\ player'.health = 0
       /\ last'.damage = 0
       /\ last'.deaths = 0
       /\ IF last'.call = "tick"
          THEN /\ player'.iframes = IframesTick(player).iframes
               /\ death_timer' = DeathTimerTick(death_timer, last'.frame_time)
          ELSE UNCHANGED <<player, death_timer>>

\* The death of a tick: at most one, in the tick that takes the health from 1
\* to 0, which sets death_timer to 1.0 (less the frame time of that tick) and
\* adds the burst of the ship.
DeathStep ==
    last'.call = "tick"
    => /\ last'.deaths <= 1
       /\ last'.deaths = 1 <=> player.health = 1 /\ player'.health = 0
       /\ last'.deaths = 1
          => /\ death_timer' = DEATH_DELAY - last'.frame_time
             /\ since_death' = last'.frame_time
       /\ player'.health >= player.health - 1

\* C20: once the health of the ship is 0 it stays 0 until reset; contacts
\* with asteroids then change neither health nor iframes; the death, with its
\* burst and death_timer = 1.0, happens once per game, in the tick in which
\* the health goes from 1 to 0, and the timer is not set again while the
\* health is 0.
ShipStaysDead == [][DeadShipStep /\ DeathStep]_vars

\* A tick in which asteroids touched a ship that was dead already, its timer
\* running.
ShipStaysDeadWitness ==
    /\ last.call = "tick"
    /\ last.pre.player.health = 0
    /\ last.pre.death_timer > 0
    /\ last.contacts # << >>
    /\ player.health = 0
    /\ death_timer = last.pre.death_timer - last.frame_time

\* The invincibility frames of the ship before the tick, after the decrement
\* of that tick.
IframesAtContact ==
    IF last.pre.player.iframes > 0 THEN last.pre.player.iframes - 1 ELSE 0

DeadShipEndsPlay ==
    /\ (player.health = 0 /\ Playing) ~> (game_over /\ last.reported /\ player.health = 0)
    /\ [][game_over => last'.call \in {"idle", "reset"}]_vars

\* The frame after the one that reported the death: the ship is dead, the
\* game is over and the frame ran no tick.
DeadShipEndsPlayWitness ==
    /\ last.call = "idle"
    /\ last.pre.game_over
    /\ last.pre.player.health = 0
    /\ last.reported
    /\ game_over

\* The ids the step gave to asteroids: those of the spawned asteroids and of
\* the children of the splits.
AssignedAsteroidIds ==
    Range(last'.spawned) \cup UNION {{sp.id1, sp.id2} : sp \in Range(last'.splits)}

\* C23: over every tick and reset asteroid_counter and laser_counter do not
\* decrease; asteroid_counter goes up by 2 for each split and by 1 for each
\* spawned asteroid, laser_counter by 1 for a firing; the ids given in the
\* step are exactly the numbers from the old counter + 1 to the new counter,
\* each given once, so that every new asteroid and laser has an id above
\* every id of its kind given before; and no other id enters a collection.
CountersGrow ==
    [][/\ asteroid_counter' >= asteroid_counter
       /\ laser_counter' >= laser_counter
       /\ asteroid_counter' =
              asteroid_counter + 2 * Len(last'.splits) + Len(last'.spawned)
       /\ laser_counter' = laser_counter + (IF last'.fired THEN 1 ELSE 0)
       /\ AssignedAsteroidIds = (asteroid_counter + 1)..asteroid_counter'
       /\ \A sp \in Range(last'.splits) : sp.id2 = sp.id1 + 1
       /\ Ids(asteroids') \ Ids(asteroids) = AssignedAsteroidIds
       /\ Ids(lasers') \ Ids(lasers) \subseteq (laser_counter + 1)..laser_counter'
       /\ \A k \in 1..Len(asteroids') : asteroids'[k].id <= asteroid_counter'
       /\ \A k \in 1..Len(lasers') : lasers'[k].id <= laser_counter']_vars

\* A tick, after a reset that went on from the counters it found, with two
\* splits or more, a spawned asteroid and a firing.
CountersGrowWitness ==
    /\ last.call = "tick"
    /\ last.pre.asteroid_counter > max_asteroids \div 4
    /\ Len(last.splits) >= 2
    /\ last.spawned # << >>
    /\ last.fired
    /\ asteroid_counter = last.pre.asteroid_counter + 2 * Len(last.splits) + Len(last.spawned)
    /\ laser_counter = last.pre.laser_counter + 1

\* The ids of the asteroids a laser hit in the tick.
HitByLaser == {h.asteroid : h \in Range(last.laser_hits)}

\* C24: between ticks every asteroid of the collection has health 1; in a
\* tick the asteroids whose health went to 0 are those a laser hit, all of
\* them asteroids of the collection at the start of the tick, each is in the
\* removal set of the tick and none is in the collection after it.
HealthOneBetweenTicks ==
    /\ \A k \in 1..Len(asteroids) : asteroids[k].health = 1
    /\ last.call = "tick"
       => /\ Range(last.kills) = HitByLaser
          /\ HitByLaser \subseteq Ids(last.pre.asteroids)
          /\ HitByLaser \subseteq last.remove_asteroid_ids
          /\ HitByLaser \cap Ids(asteroids) = {}

\* A tick in which two lasers hit, with asteroids left.
HealthOneBetweenTicksWitness ==
    /\ last.call = "tick"
    /\ Len(last.laser_hits) >= 2
    /\ HitByLaser # {}
    /\ HitByLaser \cap Ids(asteroids) = {}
    /\ asteroids # << >>

\* C25: every asteroid of the collection has a radius r with 10 <= r < 100;
\* only an asteroid of radius > 20 splits, its children have half its radius,
\* which is > 10 (10 or more once rounded down to a tenth of a pixel); and a
\* line of descent from a spawned asteroid has at most 3 splits.
RadiusRange ==
    /\ \A k \in 1..Len(asteroids) :
           min_radius <= asteroids[k].radius /\ asteroids[k].radius < max_radius
    /\ \A sp \in Range(last.splits) : sp.radius > SPLIT_RADIUS
    /\ last.call = "split"
       => /\ frames <= 3
          /\ asteroids[1].radius = last.pre.asteroids[1].radius \div 2
          /\ 2 * asteroids[1].radius < max_radius

\* The third split of a line of descent: the child is too small to split.
RadiusRangeWitness ==
    /\ last.call = "split"
    /\ frames = 3
    /\ asteroids[1].radius <= SPLIT_RADIUS
    /\ ~Splits(asteroids[1])

\* The split children the step merged into the collection after the spawner.
MergedChildren == IF last.call = "tick" THEN 2 * Len(last.splits) ELSE 0

\* The length of the collection the spawner of the step was called on.
CountAtSpawn == Len(asteroids) - MergedChildren - Len(last.spawned)

\* C26: generate_asteroids adds no asteroid when the collection has
\* max_asteroids asteroids or more, and otherwise adds at most max_asteroids
\* less the count; the collection it returns is above max_asteroids only if
\* the one it was called on was, so that an excess comes from merged split
\* children alone.
SpawnWithinDeficit ==
    last.call \in {"generate", "new", "reset", "tick"}
    => /\ CountAtSpawn >= 0
       /\ IF CountAtSpawn >= max_asteroids
          THEN last.spawned = << >>
          ELSE Len(last.spawned) <= max_asteroids - CountAtSpawn
       /\ CountAtSpawn + Len(last.spawned) <= Max(CountAtSpawn, max_asteroids)
       /\ last.call = "generate"
          => /\ CountAtSpawn = Len(last.pre.asteroids)
             /\ SubSeq(asteroids, 1, CountAtSpawn) = last.pre.asteroids

\* A call on a collection above max_asteroids, which added nothing.
SpawnWithinDeficitWitness ==
    /\ last.call = "generate"
    /\ Len(last.pre.asteroids) > max_asteroids
    /\ last.spawned = << >>
    /\ last.slots = << >>
    /\ asteroids = last.pre.asteroids

====
